---------------------------- MODULE Spec2Model ----------------------------
(***************************************************************************)
(* A model of gopy's cross-runtime bridge: the handle registry that the   *)
(* generated cgo preamble exports (DecRef, IncRef, NumHandles), the      *)
(* value marshaller Convert with its C builders, and the shadow proxies   *)
(* the embedding side builds from a construction descriptor.              *)
(*                                                                         *)
(* The package gopyh (the registry itself) and the generated shadow       *)
(* classes are not among the source files; they are modelled from the     *)
(* design document and named gopyh_* / Shadow* below.                     *)
(***************************************************************************)
EXTENDS Integers, Sequences, FiniteSets, TLC

\* ------------------------------------------------------------------ bounds

\* Register calls the model lets happen (caps the handle counter).
MaxHandles == 2
\* Cap on a refcount, and on the running count 1 + IncRefs - DecRefs.
MaxRef == 2
\* The longest command string, in chunks.
MaxCmdLen == 5

\* ------------------------------------------------------------- Go values

\* A Go value held in an interface{}: its reflect.Kind (named as
\* Kind.String() names it), its dynamic type as the parts of fmt's %T
\* split on ".", a numeric payload n (integer, boolean 0/1, float id,
\* address of the pointee, field Value of a TestStruct) and a text payload
\* s (a sequence of chunks; the chunk "NUL" is a zero byte).
GoVal(kind, typ, n, s) == [kind |-> kind, typ |-> typ, n |-> n, s |-> s]

TInt == <<"int">>
TUint64 == <<"uint64">>
TBool == <<"bool">>
TFloat64 == <<"float64">>
TString == <<"string">>
TTestStruct == <<"ifxmap", "TestStruct">>
TPtrTestStruct == <<"*ifxmap", "TestStruct">>
TMapStringIfc == <<"map[string]interface {}">>
TPtrIfc == <<"*interface {}">>
TPtrMapStringIfc == <<"*map[string]interface {}">>

IntV(n) == GoVal("int", TInt, n, <<>>)
Uint64V(n) == GoVal("uint64", TUint64, n, <<>>)
BoolV(b) == GoVal("bool", TBool, IF b THEN 1 ELSE 0, <<>>)
Float64V(n) == GoVal("float64", TFloat64, n, <<>>)
StringV(s) == GoVal("string", TString, 0, s)
TestStruct(v) == GoVal("struct", TTestStruct, v, <<>>)
PtrTo(typ, addr) == GoVal("ptr", typ, addr, <<>>)
MapRef(typ, addr) == GoVal("map", typ, addr, <<>>)
Nil == GoVal("invalid", <<"<nil>">>, 0, <<>>)
\* The expression m[key] of a map[string]interface{} at addr: a value of
\* static type interface{} that holds whatever the entry holds.
Elem(addr, key) == GoVal("interface", <<"interface {}">>, addr, <<key>>)

\* ------------------------------------------------------------------ heap

\* Runtime A's memory: a sequence of objects, an address being an index.
\* A struct object or an escaped local variable holds a Go value in val;
\* a map object holds its entries in m.
Keys == {"int", "struct"}
NoEntries == [k \in Keys |-> Nil]
Obj(ok, val, m) == [ok |-> ok, val |-> val, m |-> m]
StructObj(v) == Obj("struct", v, NoEntries)
CellObj(v) == Obj("cell", v, NoEntries)
MapObj(m) == Obj("map", Nil, m)

\* The caller's struct variable and map (maps.go, New): structPtr at SAddr,
\* retval at MAddr with its entries "int" and "struct".
SAddr == 1
MAddr == 2
StructValues == {12, 13}
MapInts == {1, 2}
InitM == [k \in Keys |-> IF k = "int" THEN IntV(2) ELSE TestStruct(6)]
InitHeap == <<StructObj(TestStruct(12)), MapObj(InitM)>>

\* --------------------------------------------------------------- registry

\* gopyh's table: the allocation counter and, per live handle, the boxed
\* value, its type name and its reference count.
Entry(val, typ, cnt) == [val |-> val, typ |-> typ, cnt |-> cnt]
EmptyRegistry == [ctr |-> 0, vars |-> <<>>]

\* Register(typeName, value) -> handle: a fresh handle from the monotonic
\* counter, the value stored with refcount 1.
gopyh_Register(reg, typ, val) ==
    LET h == reg.ctr + 1
    IN  [reg |-> [ctr |-> h, vars |-> reg.vars @@ (h :> Entry(val, typ, 1))],
         h |-> h]

\* IncRef(handle): increments a live entry; unknown or freed: a no-op.
gopyh_IncRef(reg, h) ==
    IF h \in DOMAIN reg.vars
    THEN [reg EXCEPT !.vars[h].cnt = @ + 1]
    ELSE reg

\* A DecRef that decrements without looking the handle up and leaves a
\* zero entry in the table.
gopyh_DecRef_NoCheck(reg, h) ==
    IF h \in DOMAIN reg.vars
    THEN [reg EXCEPT !.vars[h].cnt = @ - 1]
    ELSE [reg EXCEPT !.vars = @ @@ (h :> Entry(Nil, <<>>, 0 - 1))]

\* DecRef(handle): decrements; at zero the entry is removed. Unknown or
\* already freed: a no-op.
gopyh_DecRef(reg, h) ==
    IF h \in DOMAIN reg.vars
    THEN IF reg.vars[h].cnt - 1 <= 0
         THEN [reg EXCEPT !.vars = [k \in DOMAIN reg.vars \ {h} |-> reg.vars[k]]]
         ELSE [reg EXCEPT !.vars[h].cnt = @ - 1]
    ELSE reg

\* NumHandles(): the number of live entries.
gopyh_NumHandles(reg) == Cardinality(DOMAIN reg.vars)

\* Lookup(handle) -> value | HandleNotFound.
gopyh_Lookup(reg, h) ==
    IF h \in DOMAIN reg.vars /\ reg.vars[h].cnt > 0
    THEN [ok |-> TRUE, val |-> reg.vars[h].val]
    ELSE [ok |-> FALSE, val |-> Nil]

\* ------------------------------------------- the exported cgo functions

\* A DecRef export that forwards to the wrong registry call.
DecRef_AsIncRef(reg, handle) == gopyh_IncRef(reg, handle)

DecRef(reg, handle) == gopyh_DecRef(reg, handle)

\* An IncRef export that drops the call.
IncRef_Dropped(reg, handle) == reg

IncRef(reg, handle) == gopyh_IncRef(reg, handle)

NumHandles(reg) == gopyh_NumHandles(reg)

\* ------------------------------------------------------- the C builders

\* What crosses to the embedding side: a Python object (enc "int", "float",
\* "bool", "str", "object"), NULL (the builder failed), or "panic" (Convert
\* did not return). An integer object has the value n + wrap * 2^64.
PyObj(enc, wrap, n, s, cls, h) ==
    [enc |-> enc, wrap |-> wrap, n |-> n, s |-> s, cls |-> cls, h |-> h]
PyInt(wrap, n) == PyObj("int", wrap, n, <<>>, "", 0)
PyFloat(n) == PyObj("float", 0, n, <<>>, "", 0)
PyStr(s) == PyObj("str", 0, 0, s, "", 0)
PyInstance(cls, h) == PyObj("object", 0, 0, <<>>, cls, h)
PyNULL == PyObj("NULL", 0, 0, <<>>, "", 0)
Panic == PyObj("panic", 0, 0, <<>>, "", 0)
NoRes == PyObj("none", 0, 0, <<>>, "", 0)
Py_True == PyObj("bool", 0, 1, <<>>, "", 0)
Py_False == PyObj("bool", 0, 0, <<>>, "", 0)

\* Py_BuildValue("k", val): the int64 is read as an unsigned long, so a
\* negative val comes out as val + 2^64.
gopy_build_int64(val) == PyInt(IF val < 0 THEN 1 ELSE 0, val)

\* Py_BuildValue("K", val): an unsigned long long.
gopy_build_uint64(val) == PyInt(0, val)

\* Py_BuildValue("d", val).
gopy_build_float64(val) == PyFloat(val)

\* C.CString copies the Go string and appends a zero byte.
CString(x) == x \o <<"NUL">>

\* Py_BuildValue("s", val): the bytes up to the first zero byte.
RECURSIVE UpToNUL(_)
UpToNUL(c) ==
    IF c = <<>> \/ Head(c) = "NUL" THEN <<>> ELSE <<Head(c)>> \o UpToNUL(Tail(c))
gopy_build_string(val) == PyStr(UpToNUL(val))

\* The embedding side as one call of a builder finds it: whether the
\* module out.ifxmap imports, whether it has the attribute asked for,
\* whether the call of that attribute returns an object, and, where the
\* builder's behaviour is undefined, what the process does.
PyEnv(module, class, call, ub) ==
    [module |-> module, class |-> class, call |-> call, ub |-> ub]
UBOutcomes == {"crash", "wild"}
PyOK == PyEnv(TRUE, TRUE, TRUE, "crash")
PyRaise == PyEnv(TRUE, TRUE, FALSE, "crash")
Embedding ==
    {PyOK, PyRaise}
      \cup {PyEnv(FALSE, FALSE, TRUE, ub) : ub \in UBOutcomes}
      \cup {PyEnv(TRUE, FALSE, TRUE, ub) : ub \in UBOutcomes}

\* A NULL PyObject* is dereferenced: the process is killed by the fault,
\* or the call returns a pointer that is no object of the interpreter.
Deref_NULL(ub) ==
    IF ub = "crash" THEN PyObj("crash", 0, 0, <<>>, "", 0)
    ELSE PyObj("wild", 0, 0, <<>>, "", 0)

\* Py_BuildGenericStruct(objType, handle): calls out.ifxmap.<objType>(handle).
\* No result is tested: a failed import hands NULL to PyObject_GetAttrString,
\* a missing attribute hands NULL to PyObject_CallObject and Py_DECREF;
\* a call that raises returns NULL.
Py_BuildGenericStruct(objType, handle, py) ==
    IF ~py.module THEN Deref_NULL(py.ub)
    ELSE IF ~py.class THEN Deref_NULL(py.ub)
    ELSE IF py.call THEN PyInstance(objType, handle)
    ELSE PyNULL

\* Build_Map_string_interface(handle): calls Map_string_interface_(handle=handle),
\* with the same unchecked import and attribute lookup.
Build_Map_string_interface(handle, py) ==
    IF ~py.module THEN Deref_NULL(py.ub)
    ELSE IF ~py.class THEN Deref_NULL(py.ub)
    ELSE IF py.call THEN PyInstance("Map_string_interface_", handle)
    ELSE PyNULL

\* ------------------------------------------------------------- Convert

\* strings.Split(objType, ".") and its last element.
LastPart(typ) == typ[Len(typ)]

\* reflect.Type.String() / fmt's %T: the parts joined by ".".
RECURSIVE TypeString(_)
TypeString(typ) ==
    IF Len(typ) <= 1 THEN typ ELSE <<Head(typ), ".">> \o TypeString(Tail(typ))

\* reflect.Value.String() of a value that is not a string.
ValueString(arg) ==
    IF arg.kind = "invalid" THEN <<"<invalid Value>">>
    ELSE <<"<">> \o TypeString(arg.typ) \o <<" Value>">>

\* What a Convert call leaves behind: its result, the registry, the heap,
\* and the handles it obtained from handleFromPtrGenericStruct.
Outcome(res, reg, heap, new) == [res |-> res, reg |-> reg, heap |-> heap, new |-> new]

\* A handleFromPtrGenericStruct whose cast to CGoHandle narrows the handle.
handleFromPtrGenericStruct_Narrow(reg, p, structType) ==
    LET r == gopyh_Register(reg, structType, p)
    IN  [reg |-> r.reg, h |-> r.h % 2]

handleFromPtrGenericStruct(reg, p, structType) ==
    gopyh_Register(reg, structType, p)

\* The arms for int, uint64, bool, float64 and string: x := arg.(T) panics
\* when the dynamic type is not exactly T.
ConvertPrimitive(reg, heap, arg) ==
    LET res == CASE arg.kind = "int" ->
                      IF arg.typ = TInt THEN gopy_build_int64(arg.n) ELSE Panic
                 [] arg.kind = "uint64" ->
                      IF arg.typ = TUint64 THEN gopy_build_uint64(arg.n) ELSE Panic
                 [] arg.kind = "bool" ->
                      IF arg.typ = TBool
                      THEN (IF arg.n = 1 THEN Py_True ELSE Py_False)
                      ELSE Panic
                 [] arg.kind = "float64" ->
                      IF arg.typ = TFloat64 THEN gopy_build_float64(arg.n) ELSE Panic
                 [] arg.kind = "string" ->
                      IF arg.typ = TString
                      THEN gopy_build_string(CString(arg.s))
                      ELSE Panic
    IN  Outcome(res, reg, heap, <<>>)

\* A struct arm that boxes every struct in one shared buffer.
ConvertStruct_SharedBox(reg, heap, arg, py) ==
    LET objType == arg.typ
        addr == Len(InitHeap) + 1
        r == handleFromPtrGenericStruct(reg, PtrTo(TPtrIfc, addr), objType)
    IN  Outcome(Py_BuildGenericStruct(LastPart(objType), r.h, py), r.reg,
                IF Len(heap) >= addr
                THEN [heap EXCEPT ![addr] = CellObj(arg)]
                ELSE Append(heap, CellObj(arg)),
                <<r.h>>)

\* case reflect.Struct: &arg is the address of Convert's own parameter,
\* which escapes to the heap holding the caller's struct by value.
ConvertStruct(reg, heap, arg, py) ==
    LET objType == arg.typ
        addr == Len(heap) + 1
        r == handleFromPtrGenericStruct(reg, PtrTo(TPtrIfc, addr), objType)
    IN  Outcome(Py_BuildGenericStruct(LastPart(objType), r.h, py), r.reg,
                Append(heap, CellObj(arg)), <<r.h>>)

\* A map arm that boxes a copy of the map's entries.
ConvertMap_Snapshot(reg, heap, arg, py) ==
    IF arg.typ # TMapStringIfc
    THEN Outcome(gopy_build_string(CString(<<"Invalid type: ", arg.kind, " value:">>
                                           \o ValueString(arg))), reg, heap, <<>>)
    ELSE LET copy == Len(heap) + 1
             addr == Len(heap) + 2
             r == handleFromPtrGenericStruct(reg, PtrTo(TPtrMapStringIfc, addr), arg.typ)
         IN  Outcome(Build_Map_string_interface(r.h, py), r.reg,
                     heap \o <<MapObj(heap[arg.n].m), CellObj(MapRef(arg.typ, copy))>>,
                     <<r.h>>)

\* case reflect.Map: x is the asserted map (the same map object), &x the
\* address of the local that holds it.
ConvertMap(reg, heap, arg, py) ==
    IF arg.typ # TMapStringIfc
    THEN Outcome(gopy_build_string(CString(<<"Invalid type: ", arg.kind, " value:">>
                                           \o ValueString(arg))), reg, heap, <<>>)
    ELSE LET addr == Len(heap) + 1
             r == handleFromPtrGenericStruct(reg, PtrTo(TPtrMapStringIfc, addr), arg.typ)
         IN  Outcome(Build_Map_string_interface(r.h, py), r.reg,
                     Append(heap, CellObj(arg)), <<r.h>>)

\* A pointer arm that returns the handle it already holds for the pointer.
ConvertPtr_Cached(reg, heap, arg, py) ==
    LET objType == arg.typ
        have == {h \in DOMAIN reg.vars : reg.vars[h].val = arg}
        r == IF have # {}
             THEN [reg |-> reg, h |-> CHOOSE h \in have : TRUE]
             ELSE handleFromPtrGenericStruct(reg, arg, objType)
    IN  Outcome(Py_BuildGenericStruct(LastPart(objType), r.h, py), r.reg, heap, <<r.h>>)

\* case reflect.Ptr: the pointer itself is boxed.
ConvertPtr(reg, heap, arg, py) ==
    LET objType == arg.typ
        r == handleFromPtrGenericStruct(reg, arg, objType)
    IN  Outcome(Py_BuildGenericStruct(LastPart(objType), r.h, py), r.reg, heap, <<r.h>>)

\* The fall-through after the switch: Kind().String() + Value.String().
ConvertFallback(reg, heap, arg) ==
    Outcome(gopy_build_string(CString(<<arg.kind>> \o ValueString(arg))), reg, heap, <<>>)

\* reflect.ValueOf(arg), the reflect.Value struct handed on by the
\* reflect.Interface arm.
ReflectValueOf(arg) == GoVal("struct", <<"reflect", "Value">>, arg.n, <<>>)

\* A parameter passing that hands the interface-typed expression on as a
\* value of its own.
ToInterface_KeepWrapper(heap, x) == x

\* Passing x for the parameter arg interface{}: an interface-typed
\* expression hands over the dynamic type and value it holds, so arg never
\* holds an interface and reflect.ValueOf(arg).Kind() is never Interface.
ToInterface(heap, x) ==
    IF x.kind = "interface" THEN heap[x.n].m[x.s[1]] ELSE x

\* Convert(arg): the switch on reflect.ValueOf(arg).Kind().
Convert(reg, heap, arg, py) ==
    CASE arg.kind \in {"int", "uint64", "bool", "float64", "string"} ->
           ConvertPrimitive(reg, heap, arg)
      [] arg.kind = "interface" -> ConvertStruct(reg, heap, ReflectValueOf(arg), py)
      [] arg.kind = "struct" -> ConvertStruct(reg, heap, arg, py)
      [] arg.kind = "map" -> ConvertMap(reg, heap, arg, py)
      [] arg.kind = "ptr" -> ConvertPtr(reg, heap, arg, py)
      [] OTHER -> ConvertFallback(reg, heap, arg)

\* ------------------------------------------------------ CmdStrToMakefile

\* A command string is a sequence of chunks: the separator " ", the text
\* "-output=", and texts that hold neither a space nor a part of "-output=".
SP == " "
Output == "-output="
NoMake == "-no-make"
Chunks == {SP, Output, "gopy", "x"}

\* strings.Index(s, substr) for a one-chunk substr: the 0-based position of
\* its first occurrence, -1 when there is none.
strings_Index(s, substr) ==
    IF \E i \in 1..Len(s) : s[i] = substr
    THEN (CHOOSE i \in 1..Len(s) :
            s[i] = substr /\ \A j \in 1..(i - 1) : s[j] # substr) - 1
    ELSE 0 - 1

\* s[lo:hi] and s[lo:].
Slice(s, lo, hi) == SubSeq(s, lo + 1, hi)
SliceFrom(s, lo) == SubSeq(s, lo + 1, Len(s))

\* strings.Fields(s): the maximal runs of chunks that are not spaces.
RECURSIVE strings_Fields(_)
strings_Fields(s) ==
    IF s = <<>> THEN <<>>
    ELSE IF Head(s) = SP THEN strings_Fields(Tail(s))
    ELSE LET sp == strings_Index(s, SP)
             end == IF sp < 0 THEN Len(s) ELSE sp
         IN  <<Slice(s, 0, end)>> \o strings_Fields(SliceFrom(s, end))

\* strings.Join(elems, sep).
RECURSIVE strings_Join(_, _)
strings_Join(elems, sep) ==
    IF elems = <<>> THEN <<>>
    ELSE IF Len(elems) = 1 THEN elems[1]
    ELSE elems[1] \o <<sep>> \o strings_Join(Tail(elems), sep)

\* What a call leaves: the string returned, or a run-time panic.
Returns(s) == [panic |-> FALSE, s |-> s]
SliceBoundsPanic == [panic |-> TRUE, s |-> <<>>]
NotRun == [panic |-> FALSE, s |-> <<"not run">>]

\* CmdStrToMakefile(cmdstr): cut the text from the first "-output=" (when
\* it is not at the very start) through the next space, split into fields,
\* and put "-no-make" after cmds[:2]; cmds[:2] panics when strings.Fields
\* returned fewer than two fields (its capacity is its length).
CmdStrToMakefile(cmdstr) ==
    LET oidx == strings_Index(cmdstr, Output)
        spidx == strings_Index(SliceFrom(cmdstr, oidx), SP)
        cut == IF oidx > 0
               THEN Slice(cmdstr, 0, oidx) \o SliceFrom(cmdstr, oidx + spidx + 1)
               ELSE cmdstr
        cmds == strings_Fields(cut)
    IN  IF Len(cmds) < 2 THEN SliceBoundsPanic
        ELSE Returns(strings_Join(SubSeq(cmds, 1, 2) \o <<<<NoMake>>>>
                                    \o SubSeq(cmds, 3, Len(cmds)), SP))

\* ---------------------------------------------------- generated accessors

\* What a generated accessor reads through a handle: Lookup, then the field
\* Value of the boxed struct, or the entry "int" of the boxed map.
Observe(reg, heap, h) ==
    LET p == gopyh_Lookup(reg, h).val
    IN  CASE p.typ = TPtrTestStruct -> heap[p.n].val.n
          [] p.typ = TPtrIfc -> heap[p.n].val.n
          [] p.typ = TPtrMapStringIfc -> heap[heap[p.n].val.n].m["int"].n
          [] OTHER -> p.n

\* What a generated setter writes through a handle: the field Value of the
\* pointee, the struct held by the boxed interface, or the map's entry "int".
Store(reg, heap, h, v) ==
    LET p == gopyh_Lookup(reg, h).val
    IN  CASE p.typ = TPtrTestStruct -> [heap EXCEPT ![p.n].val.n = v]
          [] p.typ = TPtrIfc -> [heap EXCEPT ![p.n].val.n = v]
          [] p.typ = TPtrMapStringIfc ->
               [heap EXCEPT ![heap[p.n].val.n].m["int"] = IntV(v)]
          [] OTHER -> heap

\* A shadow proxy: the class it was built from and the one handle it holds.
ShadowProxy(cls, h) == [cls |-> cls, h |-> h]

\* ------------------------------------------------------------------ state

VARIABLES
    registry,   \* gopyh's table
    heap,       \* Runtime A's memory
    shadows,    \* the shadow proxies alive on the embedding side
    hist,       \* per handle returned: what its callers have issued on it
    issued,     \* the handles returned by handleFromPtrGenericStruct, in order
    expS,       \* the last value written to the caller's struct, by any alias
    expM,       \* the last value written to the caller's map, by any alias
    last,       \* the last call: its input, result and the registry before it
    cmdstr,     \* the command line the generator was run with
    makecmd     \* the command genMakefile writes for it

vars == <<registry, heap, shadows, hist, issued, expS, expM, last, cmdstr, makecmd>>
bridge == <<registry, heap, shadows, hist, issued, expS, expM, last>>
gen == <<cmdstr, makecmd>>

\* The bookkeeping of one handle: where it came from ("raw", "struct",
\* "ptr", "map"), the running count 1 + IncRefs - DecRefs issued on it,
\* whether that count has ever reached zero, and the value last written
\* to its boxed value (at boxing, or through the handle).
Hist(origin, net, zeroed, exp) ==
    [origin |-> origin, net |-> net, zeroed |-> zeroed, exp |-> exp]

Issue(hs, origin, exp) ==
    [k \in DOMAIN hist \cup {hs[i] : i \in DOMAIN hs} |->
        IF k \in {hs[i] : i \in DOMAIN hs}
        THEN Hist(origin, 1, FALSE, exp)
        ELSE hist[k]]

Count(h, d) ==
    IF h \in DOMAIN hist
    THEN [hist EXCEPT ![h] = Hist(@.origin, @.net + d, @.zeroed \/ @.net + d <= 0, @.exp)]
    ELSE hist

Last(op, arg, res, h) ==
    [op |-> op, arg |-> arg, res |-> res, h |-> h,
     nh |-> NumHandles(registry),
     live |-> gopyh_Lookup(registry, h).ok,
     py |-> PyOK]

\* The process runs until a call has had undefined behaviour.
Running == last.res.enc \notin {"crash", "wild"}

\* The values the model hands to Convert.
Primitives ==
    {IntV(2), IntV(0 - 1), Uint64V(3), BoolV(TRUE), BoolV(FALSE), Float64V(314159),
     StringV(<<"sample">>), StringV(<<"a", "NUL", "b">>)}
NamedPrimitives ==
    {GoVal("int", <<"main", "MyInt">>, 2, <<>>),
     GoVal("uint64", <<"main", "MyUint">>, 3, <<>>),
     GoVal("bool", <<"main", "MyBool">>, 1, <<>>),
     GoVal("float64", <<"main", "MyFloat">>, 314159, <<>>),
     GoVal("string", <<"main", "MyString">>, 0, <<"sample">>)}
Unsupported ==
    {GoVal("chan", <<"chan int">>, 0, <<>>),
     GoVal("func", <<"func()">>, 0, <<>>),
     GoVal("slice", <<"[]int">>, 0, <<>>),
     GoVal("int32", <<"int32">>, 5, <<>>),
     GoVal("map", <<"map[string]int">>, 0, <<>>),
     Nil}
Composites ==
    {heap[SAddr].val, PtrTo(TPtrTestStruct, SAddr), MapRef(TMapStringIfc, MAddr)}
Wrappers == {Elem(MAddr, k) : k \in Keys}

Init ==
    /\ registry = EmptyRegistry
    /\ heap = InitHeap
    /\ shadows = {}
    /\ hist = <<>>
    /\ issued = <<>>
    /\ expS = 12
    /\ expM = 2
    /\ last = [op |-> "init", arg |-> Nil, res |-> NoRes, h |-> 0, nh |-> 0,
               live |-> FALSE, py |-> PyOK]
    /\ cmdstr = <<>>
    /\ makecmd = NotRun

\* ---------------------------------------------------------------- actions

\* Generated code boxes a value of its own: handleFromPtrGenericStruct(42).
RegisterCall ==
    /\ Running
    /\ registry.ctr < MaxHandles
    /\ LET r == handleFromPtrGenericStruct(registry, IntV(42), TInt)
       IN  /\ registry' = r.reg
           /\ hist' = Issue(<<r.h>>, "raw", 42)
           /\ issued' = Append(issued, r.h)
           /\ last' = Last("Register", IntV(42), NoRes, r.h)
    /\ UNCHANGED <<heap, shadows, expS, expM>>
    /\ UNCHANGED gen

\* The embedding side calls the exported IncRef with any handle.
IncRefCall(h) ==
    /\ Running
    /\ h \in DOMAIN hist => hist[h].net < MaxRef
    /\ registry' = IncRef(registry, h)
    /\ hist' = Count(h, 1)
    /\ last' = Last("IncRef", Nil, NoRes, h)
    /\ UNCHANGED <<heap, shadows, issued, expS, expM>>
    /\ UNCHANGED gen

\* The embedding side calls the exported DecRef with any handle.
DecRefCall(h) ==
    /\ Running
    /\ h \in DOMAIN hist => hist[h].net >= 0
    /\ registry' = DecRef(registry, h)
    /\ hist' = Count(h, 0 - 1)
    /\ last' = Last("DecRef", Nil, NoRes, h)
    /\ UNCHANGED <<heap, shadows, issued, expS, expM>>
    /\ UNCHANGED gen

\* The inputs Convert boxes: a struct, a pointer, a map[string]interface{}.
IsComposite(arg) ==
    arg.kind \in {"struct", "ptr"} \/ (arg.kind = "map" /\ arg.typ = TMapStringIfc)

\* Convert(arg), with the embedding side in any of its conditions.
ConvertCall(arg, py) ==
    /\ Running
    /\ registry.ctr < MaxHandles
    /\ LET a == ToInterface(heap, arg)
           o == Convert(registry, heap, a, py)
       IN  /\ registry' = o.reg
           /\ heap' = o.heap
           /\ shadows' = IF o.res.enc = "object"
                         THEN shadows \cup {ShadowProxy(o.res.cls, o.res.h)}
                         ELSE shadows
           /\ hist' = Issue(o.new, a.kind,
                            CASE a.kind = "ptr" -> heap[a.n].val.n
                              [] a.kind = "map" -> heap[a.n].m["int"].n
                              [] OTHER -> a.n)
           /\ issued' = issued \o o.new
           /\ last' = [Last("Convert", arg, o.res,
                            IF o.new = <<>> THEN 0 ELSE o.new[1])
                         EXCEPT !.py = py]
    /\ UNCHANGED <<expS, expM>>
    /\ UNCHANGED gen

\* A shadow proxy is destroyed: its destruction hook calls DecRef.
ShadowDestroy(sh) ==
    /\ Running
    /\ registry' = DecRef(registry, sh.h)
    /\ shadows' = shadows \ {sh}
    /\ hist' = Count(sh.h, 0 - 1)
    /\ last' = Last("Destroy", Nil, NoRes, sh.h)
    /\ UNCHANGED <<heap, issued, expS, expM>>
    /\ UNCHANGED gen

\* Runtime A writes to its struct variable.
MutateSource(v) ==
    /\ Running
    /\ heap[SAddr].val.n # v
    /\ heap' = [heap EXCEPT ![SAddr].val.n = v]
    /\ expS' = v
    /\ last' = Last("Mutate", TestStruct(v), NoRes, 0)
    /\ UNCHANGED <<registry, shadows, hist, issued, expM>>
    /\ UNCHANGED gen

\* Runtime A writes to its map.
MutateMap(v) ==
    /\ Running
    /\ heap[MAddr].m["int"].n # v
    /\ heap' = [heap EXCEPT ![MAddr].m["int"] = IntV(v)]
    /\ expM' = v
    /\ last' = Last("MutateMap", IntV(v), NoRes, 0)
    /\ UNCHANGED <<registry, shadows, hist, issued, expS>>
    /\ UNCHANGED gen

\* The embedding side writes through a live handle that Convert returned.
WriteThroughHandle(h, v) ==
    /\ Running
    /\ gopyh_Lookup(registry, h).ok
    /\ h \in DOMAIN hist
    /\ hist[h].origin \in {"struct", "ptr", "map"}
    /\ v \in (IF hist[h].origin = "map" THEN MapInts ELSE StructValues)
    /\ Observe(registry, heap, h) # v
    /\ heap' = Store(registry, heap, h, v)
    /\ hist' = IF hist[h].origin = "struct" THEN [hist EXCEPT ![h].exp = v] ELSE hist
    /\ expS' = IF hist[h].origin = "ptr" THEN v ELSE expS
    /\ expM' = IF hist[h].origin = "map" THEN v ELSE expM
    /\ last' = Last("Write", IntV(v), NoRes, h)
    /\ UNCHANGED <<registry, shadows, issued>>
    /\ UNCHANGED gen

\* The registry under every call its callers can issue: Register from
\* generated code and from Convert (of the caller's pointer), IncRef and
\* DecRef with a handle they were given or with one that was never returned
\* (0), and the DecRef of a shadow's destruction.
Next ==
    \/ RegisterCall
    \/ \E h \in {0} \cup DOMAIN hist : IncRefCall(h)
    \/ \E h \in {0} \cup DOMAIN hist : DecRefCall(h)
    \/ \E py \in Embedding : ConvertCall(PtrTo(TPtrTestStruct, SAddr), py)
    \/ \E sh \in shadows : ShadowDestroy(sh)

Spec == Init /\ [][Next]_vars

\* The marshaller under every input, with the reads and writes of both sides.
NextMarshal ==
    \/ RegisterCall
    \/ \E arg \in Primitives \cup NamedPrimitives \cup Unsupported : ConvertCall(arg, PyOK)
    \/ \E arg \in Composites, py \in Embedding : ConvertCall(arg, py)
    \/ \E sh \in shadows : ShadowDestroy(sh)
    \/ \E v \in StructValues : MutateSource(v)
    \/ \E v \in MapInts : MutateMap(v)
    \/ \E h \in 1..MaxHandles, v \in StructValues \cup MapInts : WriteThroughHandle(h, v)

SpecMarshal == Init /\ [][NextMarshal]_vars

\* The map accessor of the generated package: it hands the elements of the
\* caller's map, and the caller's composites, to Convert.
NextElem ==
    \/ \E arg \in Wrappers \cup Composites, py \in Embedding : ConvertCall(arg, py)
    \/ \E sh \in shadows : ShadowDestroy(sh)
    \/ \E v \in MapInts : MutateMap(v)

SpecElem == Init /\ [][NextElem]_vars

\* The command strings the generator can be run with.
CmdStrings == UNION {[1..n -> Chunks] : n \in 0..MaxCmdLen}

InitCmd ==
    /\ registry = EmptyRegistry
    /\ heap = InitHeap
    /\ shadows = {}
    /\ hist = <<>>
    /\ issued = <<>>
    /\ expS = 12
    /\ expM = 2
    /\ last = [op |-> "init", arg |-> Nil, res |-> NoRes, h |-> 0, nh |-> 0,
               live |-> FALSE, py |-> PyOK]
    /\ cmdstr \in CmdStrings
    /\ makecmd = NotRun

\* genMakefile: gencmd = CmdStrToMakefile(gencmd).
genMakefile ==
    /\ makecmd = NotRun
    /\ makecmd' = CmdStrToMakefile(cmdstr)
    /\ UNCHANGED cmdstr
    /\ UNCHANGED bridge

NextCmd == genMakefile

SpecCmd == InitCmd /\ [][NextCmd]_vars

\* ------------------------------------------------------ registry claims

Live == DOMAIN registry.vars

\* C1 as stated: NumHandles() equals the number of handles whose net count
\* 1 + IncRefs - DecRefs is positive, whatever the order of the calls.
C1_NetCountIsNumHandles ==
    NumHandles(registry) = Cardinality({h \in DOMAIN hist : hist[h].net > 0})

\* C1 as amended: NumHandles() equals the number of returned handles whose
\* running count 1 + IncRefs - DecRefs has never reached zero, and each of
\* them carries exactly that count; calls issued on a handle after its count
\* reached zero change nothing.
C1_NeverZeroedIsNumHandles ==
    /\ NumHandles(registry) = Cardinality({h \in DOMAIN hist : ~hist[h].zeroed})
    /\ \A h \in DOMAIN hist :
          ~hist[h].zeroed => h \in Live /\ registry.vars[h].cnt = hist[h].net

\* C1's case: a handle whose count reached zero got an IncRef afterwards,
\* beside a handle that is still live.
C1_Witness ==
    /\ \E h \in DOMAIN hist : hist[h].zeroed /\ hist[h].net > 0 /\ h \notin Live
    /\ NumHandles(registry) >= 1

\* C2: Lookup(h) succeeds exactly for the handles whose count has not
\* reached zero, and then yields the value that was registered; no entry
\* with a refcount <= 0 is in the table; once a handle's count has reached
\* zero Lookup fails on it for good.
C2_LookupIffPositive ==
    /\ \A h \in 0..MaxHandles :
          gopyh_Lookup(registry, h).ok <=> (h \in DOMAIN hist /\ ~hist[h].zeroed)
    /\ \A h \in Live : registry.vars[h].cnt > 0
    /\ \A h \in DOMAIN hist :
          gopyh_Lookup(registry, h).ok => Observe(registry, heap, h) = hist[h].exp

\* C2's case: the DecRef that drove the only handle's count to zero has
\* run; Lookup fails on it and the table is empty.
C2_Witness ==
    /\ last.op = "DecRef" /\ last.live /\ last.h \in DOMAIN hist
    /\ hist[last.h].zeroed /\ hist[last.h].net = 0
    /\ ~gopyh_Lookup(registry, last.h).ok
    /\ NumHandles(registry) = 0

\* C3: an IncRef or DecRef (also a shadow's) on a handle that has no live
\* entry returns with the table, the heap and NumHandles() as they were,
\* and leaves no entry with a refcount below one.
C3_StaleHandleNoOp ==
    [][(last'.op \in {"IncRef", "DecRef", "Destroy"} /\ ~last'.live)
         => /\ registry' = registry
            /\ heap' = heap
            /\ NumHandles(registry') = last'.nh
            /\ \A k \in DOMAIN registry'.vars : registry'.vars[k].cnt > 0]_vars

\* C3's case: a DecRef was issued on a handle whose entry had already been
\* removed, while another handle is live.
C3_Witness ==
    /\ last.op = "DecRef" /\ ~last.live
    /\ last.h \in DOMAIN hist /\ hist[last.h].net < 0
    /\ NumHandles(registry) >= 1

\* C4: the handles returned are pairwise distinct; each was not live when
\* it was returned, designates the new entry, and raised NumHandles() by
\* one; as long as no count has reached zero NumHandles() is the number of
\* Register calls.
C4_DistinctHandles ==
    /\ \A i, j \in DOMAIN issued : i # j => issued[i] # issued[j]
    /\ (last.op = "Register" \/ (last.op = "Convert" /\ last.res.enc \in {"object", "NULL"}))
         => /\ ~last.live
            /\ gopyh_Lookup(registry, last.h).ok
            /\ NumHandles(registry) = last.nh + 1
    /\ (\A h \in DOMAIN hist : ~hist[h].zeroed) => NumHandles(registry) = Len(issued)

\* C4's case: a Register issued by generated code and one issued by Convert
\* have both returned, between IncRefs on the other handle.
C4_Witness ==
    /\ Len(issued) >= 2
    /\ NumHandles(registry) = Len(issued)
    /\ \E h, k \in DOMAIN hist :
          hist[h].origin = "raw" /\ hist[k].origin # "raw" /\ hist[h].net > 1
    /\ last.op = "Convert"

\* ---------------------------------------------------- marshaller claims

\* The encoding the design gives a primitive: the same value as a boolean
\* constant, a 64-bit integer, an unsigned 64-bit integer, a double, a string.
ExpectedPrimitive(arg) ==
    CASE arg.kind = "int" -> PyInt(0, arg.n)
      [] arg.kind = "uint64" -> PyInt(0, arg.n)
      [] arg.kind = "bool" -> (IF arg.n = 1 THEN Py_True ELSE Py_False)
      [] arg.kind = "float64" -> PyFloat(arg.n)
      [] arg.kind = "string" -> PyStr(arg.s)

\* C5: every shadow proxy holds the one handle Convert registered for it,
\* live with refcount 1, and no other shadow holds it; a shadow's
\* destruction never issues DecRef on a removed handle; and once every
\* shadow is destroyed NumHandles() is back to the handles that were not
\* made by a conversion. (No caller issues IncRef or DecRef of its own in
\* SpecMarshal.)
C5_ShadowsBalanceHandles ==
    /\ \A sh \in shadows :
          /\ sh.h \in Live /\ registry.vars[sh.h].cnt = 1
          /\ sh.h \in DOMAIN hist /\ hist[sh.h].origin # "raw"
          /\ \A other \in shadows : other.h = sh.h => other = sh
    /\ last.op = "Destroy" => last.live
    /\ shadows = {} =>
          NumHandles(registry) = Cardinality({h \in DOMAIN hist : hist[h].origin = "raw"})

\* C6: Convert of a boolean, integer, unsigned integer, float or string
\* returns the primitive encoding of that same value and leaves
\* NumHandles() and the table as they were.
C6_PrimitiveEncoding ==
    (last.op = "Convert" /\ last.arg \in Primitives)
      => /\ last.res = ExpectedPrimitive(last.arg)
         /\ NumHandles(registry) = last.nh
         /\ last.h = 0

\* C7: a Convert of a composite value makes exactly one Register call:
\* one handle is returned, it was not live before and is live after, the
\* counter and NumHandles() grow by one, and every handle live before is
\* still live (so a second conversion of a value never hands back the
\* first one's handle).
C7_OneHandlePerComposite ==
    [][(last'.op = "Convert" /\ IsComposite(last'.arg))
         => /\ Len(issued') = Len(issued) + 1
            /\ registry'.ctr = registry.ctr + 1
            /\ NumHandles(registry') = NumHandles(registry) + 1
            /\ last'.h \notin DOMAIN registry.vars
            /\ DOMAIN registry'.vars = DOMAIN registry.vars \cup {last'.h}
            /\ registry'.vars[last'.h].cnt = 1]_vars

\* C7's case: the same pointer has been converted twice and both handles
\* are live; the map with its nested struct is the other way to get there.
C7_Witness ==
    /\ last.op = "Convert" /\ last.arg.kind = "ptr"
    /\ \E h, k \in Live :
          /\ h # k /\ last.h = k
          /\ registry.vars[h].val = registry.vars[k].val
          /\ registry.vars[h].val = last.arg

\* C8: what a handle made from a struct by value shows is the value boxed
\* or last written through that very handle, whatever the caller or the
\* other handles wrote since; the caller's struct holds what was last
\* written to it by the caller or through a pointer handle; and no two such
\* handles, nor a handle and the caller's struct, share an address.
C8_ByValueIsPrivate ==
    /\ \A h \in Live :
          (h \in DOMAIN hist /\ hist[h].origin = "struct")
            => /\ Observe(registry, heap, h) = hist[h].exp
               /\ registry.vars[h].val.n # SAddr
               /\ \A k \in Live \ {h} : registry.vars[k].val.n # registry.vars[h].val.n
    /\ heap[SAddr].val.n = expS

\* C8's case: two handles boxed from the same struct value; a write through
\* one of them, seen by that one alone.
C8_Witness ==
    /\ last.op = "Write"
    /\ \E h, k \in Live :
          /\ h # k /\ last.h = h
          /\ hist[h].origin = "struct" /\ hist[k].origin = "struct"
          /\ Observe(registry, heap, h) = 13
          /\ Observe(registry, heap, k) = 12
          /\ heap[SAddr].val.n = 12

\* C9: a handle made from a pointer shows the caller's struct, and one made
\* from a map the caller's map, as last written by either side or through
\* any other such handle.
C9_PointerAndMapAreShared ==
    /\ \A h \in Live :
          (h \in DOMAIN hist /\ hist[h].origin = "ptr")
            => /\ Observe(registry, heap, h) = expS
               /\ heap[SAddr].val.n = expS
    /\ \A h \in Live :
          (h \in DOMAIN hist /\ hist[h].origin = "map")
            => /\ Observe(registry, heap, h) = expM
               /\ heap[MAddr].m["int"].n = expM

\* C9's case: the same map converted twice; a write through one handle is
\* read through the other and by the caller.
C9_Witness ==
    /\ last.op = "Write"
    /\ \E h, k \in Live :
          /\ h # k /\ last.h = h
          /\ hist[h].origin = "map" /\ hist[k].origin = "map"
          /\ Observe(registry, heap, k) = 1
          /\ heap[MAddr].m["int"].n = 1

\* C10: Convert of a value with no encoding rule, a named type of a
\* primitive kind included, returns a descriptive string and registers
\* nothing.
C10_UnsupportedFallsBack ==
    (last.op = "Convert" /\ last.arg \in Unsupported \cup NamedPrimitives)
      => /\ last.res.enc = "str"
         /\ last.res.s # <<>>
         /\ NumHandles(registry) = last.nh
         /\ last.h = 0

\* ------------------------------------------------ construction failures

\* C11: whenever the embedding side cannot build the shadow type of a
\* composite (the module or the class is missing, or the constructor
\* raises), the caller of Convert gets the failure outcome back: a NULL
\* result, never a string, never a proxy, and never no result at all.
C11_ConstructionFailurePropagates ==
    (last.op = "Convert" /\ IsComposite(last.arg) /\ last.py # PyOK)
      => last.res = PyNULL

\* ------------------------------------------------------ dispatch claims

Denotes(typ) ==
    CASE typ = TTestStruct -> {TTestStruct, TPtrTestStruct}
      [] typ = TMapStringIfc -> {TMapStringIfc, TPtrMapStringIfc}
      [] OTHER -> {typ}

\* C13: the type name of the descriptor a composite conversion sends to the
\* embedding side is the type name Register stored for the descriptor's
\* handle, the value boxed there has the shape that name stands for, and
\* two descriptors of one type name are backed by entries of one type name
\* and one boxed shape (a struct and a pointer to it are told apart).
C13_DescriptorMatchesEntry ==
    /\ (last.op = "Convert" /\ last.res.enc = "object")
          => /\ <<last.res.cls>> = TypeString(registry.vars[last.res.h].typ)
             /\ registry.vars[last.res.h].val.typ \in Denotes(registry.vars[last.res.h].typ)
    /\ \A sh, other \in shadows :
          (sh.cls = other.cls /\ sh.h \in Live /\ other.h \in Live)
            => /\ registry.vars[sh.h].typ = registry.vars[other.h].typ
               /\ registry.vars[sh.h].val.typ = registry.vars[other.h].val.typ

\* C14: a conversion that registered a composite and then got no proxy from
\* the embedding side leaves no handle behind: NumHandles() after the
\* failed Convert is NumHandles() before it.
C14_FailedConvertLeaksNothing ==
    (last.op = "Convert" /\ IsComposite(last.arg) /\ last.res = PyNULL)
      => /\ NumHandles(registry) = last.nh
         /\ ~gopyh_Lookup(registry, last.h).ok

\* ------------------------------------------------------- generator claims

\* The words of a command string that are not an "-output=..." argument.
RECURSIVE WithoutOutput(_)
WithoutOutput(words) ==
    IF words = <<>> THEN <<>>
    ELSE IF Head(Head(words)) = Output THEN WithoutOutput(Tail(words))
    ELSE <<Head(words)>> \o WithoutOutput(Tail(words))

\* C15: for every command string CmdStrToMakefile returns normally, and
\* what it returns is the words of the input without any "-output=..."
\* argument, the last word included, with "-no-make" put right after the
\* first two of them and the others in their order.
C15_MakefileCommand ==
    makecmd # NotRun =>
       LET kept == WithoutOutput(strings_Fields(cmdstr))
           k == IF Len(kept) < 2 THEN Len(kept) ELSE 2
       IN  /\ ~makecmd.panic
           /\ makecmd.s = strings_Join(SubSeq(kept, 1, k) \o <<<<NoMake>>>>
                                         \o SubSeq(kept, k + 1, Len(kept)), SP)

=============================================================================
